---- MODULE Spec2Model ----
(***************************************************************************)
(* Cursor (src/js/utils/cursor.js) of mobiledoc-kit: the bridge between    *)
(* logical Positions / Ranges of a post and the host's native selection.  *)
(*                                                                         *)
(* The native selection is one process-wide object: a list of ranges,     *)
(* each with an anchor and a focus boundary point (node, offset).  The     *)
(* document is a fixed rendered post                                       *)
(*     body > [ editor > [ p1 > [ "A", <b> > "B" ],                        *)
(*                         card > [ zwnj, inner > "x", zwnj ],             *)
(*                         p2 > [ "CD" ], blank > [ <br> ], stray text ],  *)
(*              aside text ]                                               *)
(* so that there are text sections with one and with two markers, a card   *)
(* section, a blank section, a node inside the editor that no render node  *)
(* owns and a node outside the editor.                                     *)
(***************************************************************************)
EXTENDS Integers, Sequences, FiniteSets, TLC

\* ------------------------------------------------------------------ bounds
\* length of the card section (number of logical offsets inside it is CardLen + 1)
CardLen == 2

\* ------------------------------------------------------------- the DOM tree
\* every node, in document (pre-)order
DocOrder ==
  << "body", "editor", "p1", "tA", "b", "tB", "card", "cFirst", "cInner",
     "cText", "cLast", "p2", "tCD", "blank", "br", "stray", "aside" >>

Nodes == { DocOrder[i] : i \in 1..Len(DocOrder) }

IdxOf == [n \in Nodes |-> CHOOSE i \in 1..Len(DocOrder) : DocOrder[i] = n]

Idx(n) == IdxOf[n]

\* parentNode; "none" above the body
Parent(n) ==
  CASE n = "body"   -> "none"
    [] n = "editor" -> "body"
    [] n = "aside"  -> "body"
    [] n \in {"p1", "card", "p2", "blank", "stray"} -> "editor"
    [] n \in {"tA", "b"} -> "p1"
    [] n = "tB"     -> "b"
    [] n \in {"cFirst", "cInner", "cLast"} -> "card"
    [] n = "cText"  -> "cInner"
    [] n = "tCD"    -> "p2"
    [] n = "br"     -> "blank"

\* character data of the text nodes (the zero-width placeholders count one)
TextOf(n) ==
  CASE n = "tA"     -> <<"A">>
    [] n = "tB"     -> <<"B">>
    [] n = "cFirst" -> <<"zwnj">>
    [] n = "cText"  -> <<"x">>
    [] n = "cLast"  -> <<"zwnj">>
    [] n = "tCD"    -> <<"C", "D">>
    [] n = "stray"  -> <<"s">>
    [] n = "aside"  -> <<"Z">>
    [] OTHER        -> << >>

TextNodes == {"tA", "tB", "cFirst", "cText", "cLast", "tCD", "stray", "aside"}

Children(n) == { c \in Nodes : Parent(c) = n }

firstChild(n) == CHOOSE c \in Children(n) : \A d \in Children(n) : Idx(c) <= Idx(d)

lastChild(n) == CHOOSE c \in Children(n) : \A d \in Children(n) : Idx(d) <= Idx(c)

RECURSIVE IsAncestorOrSelf(_, _)
IsAncestorOrSelf(a, n) ==
  IF n = "none" THEN FALSE
  ELSE IF n = a THEN TRUE
  ELSE IsAncestorOrSelf(a, Parent(n))

\* editor.element
element == "editor"

\* a boundary point of the native selection
Pt(n, o) == [node |-> n, offset |-> o]

NoPoint == Pt("none", 0)

\* the boundary points the host places in this document: any offset of a
\* marker's text, the start of any other text node, and the start of the
\* editor, of a section and of the card's content
Points ==
  UNION { { Pt(n, o) : o \in 0..Len(TextOf(n)) } : n \in {"tA", "tB", "tCD"} }
    \cup { Pt(n, 0) : n \in {"cFirst", "cText", "cLast", "stray", "aside"} }
    \cup { Pt(n, 0) : n \in {"editor", "p1", "card", "cInner", "blank"} }

\* document order of boundary points
PointBefore(p, q) ==
  \/ Idx(p.node) < Idx(q.node)
  \/ (p.node = q.node /\ p.offset < q.offset)

\* ------------------------------------------------------- the logical post
\* post.sections, in order
Sections == << "P1", "Card", "P2", "Blank" >>

SectionSet == { Sections[i] : i \in 1..Len(Sections) }

SecIdx(s) == CHOOSE i \in 1..Len(Sections) : Sections[i] = s

isCardSection(s) == s = "Card"

\* the rendered markers of a section: each marker's rendered element is its
\* text node
Markers(s) ==
  CASE s = "P1" -> << "tA", "tB" >>
    [] s = "P2" -> << "tCD" >>
    [] OTHER    -> << >>

isBlank(s) == ~isCardSection(s) /\ Markers(s) = << >>

\* section.renderNode.element
SectionElement(s) ==
  CASE s = "P1"    -> "p1"
    [] s = "Card"  -> "card"
    [] s = "P2"    -> "p2"
    [] s = "Blank" -> "blank"

RECURSIVE SumLen(_, _)
SumLen(ms, k) == IF k = 0 THEN 0 ELSE Len(TextOf(ms[k])) + SumLen(ms, k - 1)

\* section.length
SectionLength(s) ==
  IF isCardSection(s) THEN CardLen ELSE SumLen(Markers(s), Len(Markers(s)))

\* ----------------------------------------------------------------- Position
Pos(s, o) == [section |-> s, offset |-> o]

\* Position.emptyPosition(): the endpoints of the empty range
EmptyPosition == Pos("none", 0)

\* what Position.fromNode gives for a node that no render node owns (it has
\* no logical location: the lookup fails)
UnresolvedPosition == Pos("unresolved", 0)

Positions ==
  UNION { { Pos(s, o) : o \in 0..SectionLength(s) } : s \in SectionSet }

\* the Positions the data model allows: a card section is addressed at its two
\* boundaries only
ValidPosition(p) ==
  /\ p \in Positions
  /\ isCardSection(p.section) => p.offset \in {0, SectionLength(p.section)}

\* document order of Positions
PosBefore(p, q) ==
  \/ SecIdx(p.section) < SecIdx(q.section)
  \/ (p.section = q.section /\ p.offset < q.offset)

\* section.markerPositionAtOffset: walks the markers, consuming the offset; the
\* first marker that exhausts it owns the position
RECURSIVE MarkerWalk(_, _, _)
MarkerWalk(ms, k, remaining) ==
  LET cur == IF remaining < Len(TextOf(ms[k])) THEN remaining ELSE Len(TextOf(ms[k]))
  IN IF remaining - cur = 0 \/ k = Len(ms)
     THEN [marker |-> ms[k], offset |-> cur]
     ELSE MarkerWalk(ms, k + 1, remaining - cur)

markerPosition(p) == MarkerWalk(Markers(p.section), 1, p.offset)

\* -------------------------------------------------------------------- Range
FORWARD == "forward"

BACKWARD == "backward"

\* a Range built without a direction argument
UNSPECIFIED == "unspecified"

Rng(h, t, d) == [head |-> h, tail |-> t, direction |-> d]

\* Range.emptyRange()
EmptyRange == Rng(EmptyPosition, EmptyPosition, UNSPECIFIED)

\* Range.create(headSection, headOffset, tailSection, tailOffset): two
\* Positions, stored in document order
RangeCreate(hs, ho, ts, to) ==
  LET h == Pos(hs, ho)
      t == Pos(ts, to)
  IN IF PosBefore(t, h) THEN Rng(t, h, UNSPECIFIED) ELSE Rng(h, t, UNSPECIFIED)

\* the Ranges a caller passes: head and tail in document order
Ranges ==
  { Rng(h, t, d) : h \in Positions, t \in Positions,
                   d \in {FORWARD, BACKWARD, UNSPECIFIED} }

InputRanges == { r \in Ranges : ~PosBefore(r.tail, r.head) }

\* ------------------------------------------------ external collaborators
\* containsNode(parentNode, childNode): childNode is parentNode or one of its
\* descendants (a null node is contained in nothing)
containsNode(root, n) == IsAncestorOrSelf(root, n)

\* the native nodes the render tree registers: the rendered element of every
\* section and the text node of every marker
Registered ==
  { SectionElement(s) : s \in SectionSet }
    \cup UNION { { Markers(s)[i] : i \in 1..Len(Markers(s)) } : s \in SectionSet }

\* renderTree.findRenderNodeFromElement(element): the render node of the
\* nearest registered ancestor-or-self, named by its element; "none" for null
RECURSIVE findRenderNodeFromElement(_)
findRenderNodeFromElement(n) ==
  IF n = "none" THEN "none"
  ELSE IF n \in Registered THEN n
  ELSE findRenderNodeFromElement(Parent(n))

\* the section that owns a registered node (renderNode.postNode, or its section)
SectionOf(rn) ==
  CHOOSE s \in SectionSet :
    \/ SectionElement(s) = rn
    \/ \E i \in 1..Len(Markers(s)) : Markers(s)[i] = rn

\* renderNode.postNode.isCardSection: the post node is the card section itself
postNodeIsCardSection(rn) == \E s \in SectionSet : isCardSection(s) /\ SectionElement(s) = rn

\* the characters of the section's markers that lie before native node n
RECURSIVE CharsBefore(_, _, _)
CharsBefore(ms, k, n) ==
  IF k = 0 THEN 0
  ELSE (IF Idx(ms[k]) < Idx(n) THEN Len(TextOf(ms[k])) ELSE 0) + CharsBefore(ms, k - 1, n)

\* Position.fromNode(renderTree, node, offset): the logical location of a
\* native boundary point.  A card resolves to one of its two boundaries (the
\* last anchor to offset = length, anything else to 0); text resolves to the
\* offset in the section of the character the point stands before
fromNode(n, o) ==
  LET rn == findRenderNodeFromElement(n)
  IN IF rn = "none" THEN UnresolvedPosition
     ELSE LET s == SectionOf(rn)
          IN IF isCardSection(s)
             THEN (IF n = lastChild(SectionElement(s))
                   THEN Pos(s, SectionLength(s)) ELSE Pos(s, 0))
             ELSE Pos(s, CharsBefore(Markers(s), Len(Markers(s)), n)
                           + (IF n \in TextNodes /\ n \in Registered THEN o ELSE 0))

\* comparePosition(selection): head and tail of the anchor/focus pair in
\* document order, and the direction of the gesture
comparePosition(anchor, focus) ==
  IF PointBefore(focus, anchor)
  THEN [headNode |-> focus.node, headOffset |-> focus.offset,
        tailNode |-> anchor.node, tailOffset |-> anchor.offset,
        direction |-> BACKWARD]
  ELSE [headNode |-> anchor.node, headOffset |-> anchor.offset,
        tailNode |-> focus.node, tailOffset |-> focus.offset,
        direction |-> FORWARD]

\* post.sections.readRange(start, end): the list walked from start until end
\* is met (or the list runs out)
readRange(start, end) ==
  LET i == IF start \in SectionSet THEN SecIdx(start) ELSE 1
      j == IF end \in SectionSet /\ SecIdx(end) >= i THEN SecIdx(end) ELSE Len(Sections)
  IN SubSeq(Sections, i, j)

\* ----------------------------------------------------- the native selection
\* The host keeps the selection sel (a sequence of ranges, each with its
\* anchor and focus) together with the log of the mutating primitives the last
\* command invoked on it.
Call(f, a, b) == [fn |-> f, a |-> a, b |-> b]

Host(sel, log) == [sel |-> sel, log |-> log]

\* document.createRange(): collapsed at the start of the document
createRange == [start |-> Pt("body", 0), end |-> Pt("body", 0)]

\* range.setStart(node, offset): a start after the end moves the end too
setStart(r, bp) ==
  [start |-> bp, end |-> IF PointBefore(r.end, bp) THEN bp ELSE r.end]

\* range.setEnd(node, offset): an end before the start moves the start too
setEnd(r, bp) ==
  [start |-> IF PointBefore(bp, r.start) THEN bp ELSE r.start, end |-> bp]

\* selection.removeAllRanges()
removeAllRanges(h) ==
  Host(<< >>, Append(h.log, Call("removeAllRanges", NoPoint, NoPoint)))

\* selection.addRange(range): anchor at the start, focus at the end
addRange(h, r) ==
  Host(Append(h.sel, [anchor |-> r.start, focus |-> r.end]),
       Append(h.log, Call("addRange", r.start, r.end)))

\* selection.extend(node, offset): moves the focus, keeps the anchor
extend(h, bp) ==
  Host(IF h.sel = << >> THEN h.sel
       ELSE [h.sel EXCEPT ![Len(h.sel)].focus = bp],
       Append(h.log, Call("extend", bp, NoPoint)))

\* clearSelection() of selection-utils
clearSelectionUtil(h) == removeAllRanges(h)

\* ---------------------------------------------------------------- the state
VARIABLES
  ranges,       \* window.getSelection(): its ranges, each [anchor, focus]
  hasExtend,    \* whether the host's selection has the extend primitive
  op,           \* the operation that ran last
  argRange,     \* the Range the last select / move command applied
  argSections,  \* the sections the last selectSections was given
  calls,        \* the mutating primitives the last operation invoked, in order
  ret           \* what the last operation returned

vars == << ranges, hasExtend, op, argRange, argSections, calls, ret >>

\* ------------------------------------------------------------ Cursor, reads
rangeCount == Len(ranges)

\* selection.anchorNode / focusNode (null without a range)
anchorPoint == IF ranges = << >> THEN NoPoint ELSE ranges[Len(ranges)].anchor

focusPoint == IF ranges = << >> THEN NoPoint ELSE ranges[Len(ranges)].focus

anchorNode == anchorPoint.node

focusNode == focusPoint.node

\* get _selectionRange: null ("none") without a range, else getRangeAt(0)
_selectionRange ==
  IF rangeCount = 0 THEN "none"
  ELSE LET a == ranges[1].anchor
           f == ranges[1].focus
       IN IF PointBefore(f, a) THEN [start |-> f, end |-> a]
                               ELSE [start |-> a, end |-> f]

collapsed(r) == r.start = r.end

\* _hasSelection without the test for a collapsed range
_hasSelectionIgnoringCollapsed ==
  IF rangeCount = 0 THEN FALSE
  ELSE containsNode(element, anchorNode) /\ containsNode(element, focusNode)

_hasSelection ==
  IF rangeCount = 0 THEN FALSE
  ELSE IF collapsed(_selectionRange) THEN FALSE
  ELSE containsNode(element, anchorNode) /\ containsNode(element, focusNode)

_hasCollapsedSelection ==
  IF rangeCount = 0 THEN FALSE
  ELSE containsNode(element, anchorNode)

hasCursor == _hasCollapsedSelection \/ _hasSelection

hasSelection == _hasSelection

\* isAddressable without the card section's rule
isAddressableAnyDescendant(el) == findRenderNodeFromElement(el) # "none"

isAddressable(el) ==
  LET renderNode == findRenderNodeFromElement(el)
  IN IF /\ renderNode # "none"
        /\ postNodeIsCardSection(renderNode)
        /\ el # renderNode
        /\ el # firstChild(renderNode)
        /\ el # lastChild(renderNode)
     THEN FALSE
     ELSE renderNode # "none"

offsets ==
  IF ~hasCursor THEN EmptyRange
  ELSE LET cp == comparePosition(anchorPoint, focusPoint)
       IN Rng(fromNode(cp.headNode, cp.headOffset),
              fromNode(cp.tailNode, cp.tailOffset),
              cp.direction)

\* activeSections reading the run up to the head's own section only
activeSectionsHeadOnly ==
  IF ~hasCursor THEN << >>
  ELSE readRange(offsets.head.section, offsets.head.section)

activeSections ==
  IF ~hasCursor THEN << >>
  ELSE readRange(offsets.head.section, offsets.tail.section)

\* the characters of the document before a boundary point
RECURSIVE TextIndex(_, _)
TextIndex(k, pt) ==
  IF k = 0 THEN 0
  ELSE (IF DocOrder[k] = pt.node THEN pt.offset
        ELSE IF k < Idx(pt.node) THEN Len(TextOf(DocOrder[k]))
        ELSE 0) + TextIndex(k - 1, pt)

RECURSIVE AllText(_)
AllText(k) == IF k = 0 THEN << >> ELSE AllText(k - 1) \o TextOf(DocOrder[k])

\* selection.toString(): the characters between the start and the end
selectedText ==
  IF rangeCount = 0 THEN << >>
  ELSE SubSeq(AllText(Len(DocOrder)),
              TextIndex(Len(DocOrder), _selectionRange.start) + 1,
              TextIndex(Len(DocOrder), _selectionRange.end))

\* ---------------------------------------------------------- Cursor, writes
\* _findNodeForPosition taking the last anchor at offset = length only
_findNodeForPositionLastAtLength(position) ==
  LET section == position.section
  IN IF isCardSection(section)
     THEN (IF position.offset = SectionLength(section)
           THEN Pt(lastChild(SectionElement(section)), 0)
           ELSE Pt(firstChild(SectionElement(section)), 0))
     ELSE IF isBlank(section)
     THEN Pt(SectionElement(section), 0)
     ELSE LET mp == markerPosition(position)
          IN Pt(mp.marker, mp.offset)

_findNodeForPosition(position) ==
  LET section == position.section
  IN IF isCardSection(section)
     THEN (IF position.offset = 0
           THEN Pt(firstChild(SectionElement(section)), 0)
           ELSE Pt(lastChild(SectionElement(section)), 0))
     ELSE IF isBlank(section)
     THEN Pt(SectionElement(section), 0)
     ELSE LET mp == markerPosition(position)
          IN Pt(mp.marker, mp.offset)

\* _moveToNode without the clearSelection() it starts with
_moveToNodeWithoutClear(h, start, end, direction) ==
  LET dir == IF direction = UNSPECIFIED THEN FORWARD ELSE direction
      first == IF dir = BACKWARD THEN end ELSE start
      second == IF dir = BACKWARD THEN start ELSE end
      range == setStart(createRange, first)
  IN IF dir = BACKWARD /\ hasExtend
     THEN extend(addRange(h, range), second)
     ELSE addRange(h, setEnd(range, second))

\* _moveToNode without the swap of the endpoints of a backward range
_moveToNodeWithoutSwap(h, start, end, direction) ==
  LET dir == IF direction = UNSPECIFIED THEN FORWARD ELSE direction
      cleared == clearSelectionUtil(h)
      range == setStart(createRange, start)
  IN IF dir = BACKWARD /\ hasExtend
     THEN extend(addRange(cleared, range), end)
     ELSE addRange(cleared, setEnd(range, end))

\* _moveToNode(node, offset, endNode, endOffset, direction = FORWARD), as the
\* host state it leaves
_moveToNode(h, start, end, direction) ==
  LET dir == IF direction = UNSPECIFIED THEN FORWARD ELSE direction
      cleared == clearSelectionUtil(h)
      first == IF dir = BACKWARD THEN end ELSE start
      second == IF dir = BACKWARD THEN start ELSE end
      range == setStart(createRange, first)
  IN IF dir = BACKWARD /\ hasExtend
     THEN extend(addRange(cleared, range), second)
     ELSE addRange(cleared, setEnd(range, second))

selectRangeHost(h, range) ==
  _moveToNode(h, _findNodeForPosition(range.head),
                 _findNodeForPosition(range.tail), range.direction)

\* ------------------------------------------------------------------ actions
\* the non-empty lists of sections in document order
RECURSIVE Picked(_, _)
Picked(k, mask) ==
  IF k > Len(Sections) THEN << >>
  ELSE (IF k \in mask THEN << Sections[k] >> ELSE << >>) \o Picked(k + 1, mask)

SectionLists == { Picked(1, mask) : mask \in (SUBSET (1..Len(Sections))) \ { {} } }

Init ==
  /\ ranges = << >>
  /\ hasExtend \in BOOLEAN
  /\ op = "init"
  /\ argRange = EmptyRange
  /\ argSections = << >>
  /\ calls = << >>
  /\ ret = "void"

\* the selection belongs to the host: the user (or other code) places any
\* anchor and focus, inside or outside the editor
NativeSelect ==
  \E a \in Points, f \in Points :
    /\ ranges' = << [anchor |-> a, focus |-> f] >>
    /\ op' = "native"
    /\ argRange' = EmptyRange
    /\ argSections' = << >>
    /\ calls' = << >>
    /\ ret' = "void"
    /\ UNCHANGED hasExtend

Command(name, h, range, sections) ==
  /\ ranges' = h.sel
  /\ calls' = h.log
  /\ op' = name
  /\ argRange' = range
  /\ argSections' = sections
  /\ ret' = "void"
  /\ UNCHANGED hasExtend

Query(name, value) ==
  /\ op' = name
  /\ ret' = value
  /\ argRange' = EmptyRange
  /\ argSections' = << >>
  /\ calls' = << >>
  /\ UNCHANGED << ranges, hasExtend >>

clearSelection ==
  Command("clearSelection", clearSelectionUtil(Host(ranges, << >>)), EmptyRange, << >>)

selectRange ==
  \E r \in InputRanges :
    Command("selectRange", selectRangeHost(Host(ranges, << >>), r), r, << >>)

moveToPosition ==
  \E p \in Positions :
    LET r == Rng(p, p, UNSPECIFIED)
    IN Command("moveToPosition", selectRangeHost(Host(ranges, << >>), r), r, << >>)

moveToSection ==
  \E s \in SectionSet, given \in BOOLEAN :
    \E o \in 0..SectionLength(s) :
      LET offsetInSection == IF given THEN o ELSE 0
          r == Rng(Pos(s, offsetInSection), Pos(s, offsetInSection), UNSPECIFIED)
      IN Command("moveToSection", selectRangeHost(Host(ranges, << >>), r), r, << >>)

selectSections ==
  \E sections \in SectionLists :
    LET headSection == sections[1]
        tailSection == sections[Len(sections)]
        range == RangeCreate(headSection, 0, tailSection, SectionLength(tailSection))
    IN Command("selectSections", selectRangeHost(Host(ranges, << >>), range),
               range, sections)

hasCursorQuery == Query("hasCursor", hasCursor)

hasSelectionQuery == Query("hasSelection", hasSelection)

isAddressableQuery == \E el \in Nodes : Query("isAddressable", isAddressable(el))

offsetsQuery == Query("offsets", offsets)

activeSectionsQuery == Query("activeSections", activeSections)

selectedTextQuery == Query("selectedText", selectedText)

Next ==
  \/ NativeSelect
  \/ clearSelection
  \/ selectRange
  \/ moveToPosition
  \/ moveToSection
  \/ selectSections
  \/ hasCursorQuery
  \/ hasSelectionQuery
  \/ isAddressableQuery
  \/ offsetsQuery
  \/ activeSectionsQuery
  \/ selectedTextQuery

Spec == Init /\ [][Next]_vars

\* ------------------------------------------------------------------ claims
SelectCommands == {"selectRange", "moveToPosition", "moveToSection", "selectSections"}

MoveCommands == {"moveToPosition", "moveToSection"}

Queries ==
  {"hasCursor", "hasSelection", "isAddressable", "offsets", "activeSections",
   "selectedText"}

inEditor(n) == containsNode(element, n)

nativeCollapsed == ranges[1].anchor = ranges[1].focus

\* the direction a Range asks for (none given means forward)
askedDirection == IF argRange.direction = BACKWARD THEN BACKWARD ELSE FORWARD

headEndpoint == _findNodeForPosition(argRange.head)

tailEndpoint == _findNodeForPosition(argRange.tail)

\* C1: hasCursor() is true iff a native range exists and it is a collapsed
\* point or a non-collapsed selection, in either case with anchor node and
\* focus node inside the editor element (so false for a non-collapsed
\* selection with the anchor inside and the focus outside).
C1_HasCursorIffContained ==
  hasCursor <=> /\ rangeCount > 0
                /\ inEditor(anchorNode)
                /\ inEditor(focusNode)

\* C2: when the anchor node or the focus node lies outside the editor
\* element, offsets is the empty range; every Position offsets returns was
\* resolved from a node inside the editor element.
C2_OffsetsContained ==
  /\ (rangeCount > 0 /\ (~inEditor(anchorNode) \/ ~inEditor(focusNode)))
       => offsets = EmptyRange
  /\ offsets # EmptyRange => (inEditor(anchorNode) /\ inEditor(focusNode))

\* C9: hasSelection() is true iff a native range exists, is not collapsed and
\* has its anchor node and its focus node inside the editor element; it
\* implies hasCursor(), and it is false right after moveToPosition and
\* moveToSection.
C9_HasSelectionContract ==
  /\ hasSelection <=> /\ rangeCount > 0
                      /\ ~nativeCollapsed
                      /\ inEditor(anchorNode)
                      /\ inEditor(focusNode)
  /\ hasSelection => hasCursor
  /\ op \in MoveCommands => ~hasSelection

\* C9 witnesses: a move command has just run (a cursor, no selection)
C9_Witness ==
  /\ op = "moveToSection"
  /\ argRange.head = Pos("P2", 1)
  /\ rangeCount = 1
  /\ hasCursor
  /\ ~hasSelection

\* C4: without the extend primitive, selectRange of a backward Range whose
\* head is strictly before its tail installs one native range that starts at
\* the head's native endpoint and ends at the tail's native endpoint.
C4_FallbackKeepsSpan ==
  (/\ op = "selectRange"
   /\ ~hasExtend
   /\ argRange.direction = BACKWARD
   /\ PosBefore(argRange.head, argRange.tail))
    => /\ rangeCount = 1
       /\ _selectionRange.start = headEndpoint
       /\ _selectionRange.end = tailEndpoint

\* C5: with the extend primitive, selectRange of a backward Range clears the
\* native selection, then adds a range collapsed at the tail's endpoint, then
\* extends to the head's endpoint, leaving the anchor at the tail and the
\* focus at the head; a forward (or direction-less) Range leaves the anchor at
\* the head's endpoint and the focus at the tail's.
C5_DirectionalApply ==
  /\ (op \in SelectCommands /\ askedDirection = BACKWARD /\ hasExtend)
       => /\ calls = << Call("removeAllRanges", NoPoint, NoPoint),
                        Call("addRange", tailEndpoint, tailEndpoint),
                        Call("extend", headEndpoint, NoPoint) >>
          /\ anchorPoint = tailEndpoint
          /\ focusPoint = headEndpoint
  /\ (op \in SelectCommands /\ askedDirection = FORWARD)
       => /\ calls[1] = Call("removeAllRanges", NoPoint, NoPoint)
          /\ anchorPoint = headEndpoint
          /\ focusPoint = tailEndpoint

\* C5 witness: a backward Range over two sections applied with extend
C5_Witness ==
  /\ op = "selectRange"
  /\ hasExtend
  /\ argRange = Rng(Pos("P1", 0), Pos("P2", 2), BACKWARD)
  /\ anchorPoint = Pt("tCD", 2)
  /\ focusPoint = Pt("tA", 0)

\* what reading offsets after the last command must give back (a collapsed
\* Range records no gesture, so its direction is not compared)
readsBack(directionKept) ==
  /\ offsets.head = argRange.head
  /\ offsets.tail = argRange.tail
  /\ IF directionKept
     THEN argRange.head # argRange.tail => offsets.direction = askedDirection
     ELSE offsets.direction = FORWARD

\* C3: selectRange(r), for a Range r in document order with valid endpoints,
\* followed by offsets gives back r's head and tail, with r's direction when
\* the host has extend and forward when it has not; moveToPosition and
\* moveToSection read back as a collapsed Range at their position.
C3_RoundTrip ==
  /\ (/\ op = "selectRange"
      /\ ValidPosition(argRange.head)
      /\ ValidPosition(argRange.tail))
       => readsBack(hasExtend)
  /\ (op \in MoveCommands /\ ValidPosition(argRange.head))
       => /\ offsets.head = argRange.head
          /\ offsets.tail = argRange.head

\* C3, the part the code keeps: the round trip of every command that does not
\* take the fallback of a backward Range without extend
C3_RoundTripOutsideFallback ==
  /\ (/\ op = "selectRange"
      /\ ValidPosition(argRange.head)
      /\ ValidPosition(argRange.tail)
      /\ (hasExtend \/ askedDirection = FORWARD))
       => readsBack(hasExtend)
  /\ (op \in MoveCommands /\ ValidPosition(argRange.head))
       => /\ offsets.head = argRange.head
          /\ offsets.tail = argRange.head

\* C6, stated on one Position and the endpoint it was given
endpointAsSpecified(p, e) ==
  LET s == p.section
      el == SectionElement(s)
  IN IF isCardSection(s)
     THEN /\ e.offset = 0
          /\ p.offset = 0 => e.node = firstChild(el)
          /\ p.offset # 0 => e.node = lastChild(el)
          /\ firstChild(el) # lastChild(el)
               => _findNodeForPosition(Pos(s, 0))
                    # _findNodeForPosition(Pos(s, SectionLength(s)))
     ELSE IF Markers(s) = << >>
     THEN e = Pt(el, 0)
     ELSE /\ \E i \in 1..Len(Markers(s)) : Markers(s)[i] = e.node
          /\ e.offset \in 0..Len(TextOf(e.node))
          /\ CharsBefore(Markers(s), Len(Markers(s)), e.node) + e.offset = p.offset

\* C6: the native endpoint of a Position is, for a card section, the first
\* child at 0 for offset 0 and the last child at 0 for every other offset
\* (two distinct anchors for offsets 0 and length); for a blank section, the
\* section's element at 0; otherwise the owning marker's text node at
\* offsetInMarker.  Stated of the endpoints every select / move command
\* resolved and, for forward commands, of the range it handed to addRange.
C6_NativeEndpoint ==
  op \in SelectCommands =>
    /\ endpointAsSpecified(argRange.head, headEndpoint)
    /\ endpointAsSpecified(argRange.tail, tailEndpoint)
    /\ askedDirection = FORWARD =>
         /\ endpointAsSpecified(argRange.head, calls[2].a)
         /\ endpointAsSpecified(argRange.tail, calls[2].b)

\* C6 witness: a card offset strictly between 0 and length was applied, and
\* went to the last anchor
C6_Witness ==
  /\ op = "selectRange"
  /\ argRange.head = Pos("Card", 1)
  /\ argRange.tail = Pos("P2", 1)
  /\ askedDirection = FORWARD
  /\ anchorPoint = Pt("cLast", 0)
  /\ focusPoint = Pt("tCD", 1)

\* a node inside the editor element that maps to no logical render node, or
\* that lies inside a card section without being one of its three addressable
\* nodes
addressingFailure(n) ==
  /\ inEditor(n)
  /\ \/ findRenderNodeFromElement(n) = "none"
     \/ \E s \in SectionSet :
          /\ isCardSection(s)
          /\ containsNode(SectionElement(s), n)
          /\ n \notin { SectionElement(s), firstChild(SectionElement(s)),
                        lastChild(SectionElement(s)) }

\* C7 as claimed: whenever the anchor or the focus node is an addressing
\* failure, hasCursor() is false, offsets is the empty range and
\* activeSections is empty.
C7_AddressingFailsClosed ==
  (rangeCount > 0 /\ (addressingFailure(anchorNode) \/ addressingFailure(focusNode)))
    => /\ ~hasCursor
       /\ offsets = EmptyRange
       /\ activeSections = << >>

\* C7 as amended: an addressing failure is reported by isAddressable alone.
\* isAddressable is false for such a node and true for every other node
\* inside the editor element, while hasCursor, offsets and activeSections do
\* not consult it: for a selection whose anchor and focus nodes are inside the
\* editor element, hasCursor() is true and offsets is not the empty range even
\* when the anchor or the focus node is an addressing failure.
C7_OnlyIsAddressableReports ==
  /\ \A n \in Nodes : addressingFailure(n) => ~isAddressable(n)
  /\ \A n \in Nodes :
       (inEditor(n) /\ ~addressingFailure(n)) => isAddressable(n)
  /\ (/\ rangeCount > 0
      /\ inEditor(anchorNode)
      /\ inEditor(focusNode)
      /\ (addressingFailure(anchorNode) \/ addressingFailure(focusNode)))
       => (hasCursor /\ offsets # EmptyRange)

\* C7 witness: a collapsed native cursor in the text inside a card
C7_Witness ==
  /\ rangeCount = 1
  /\ anchorPoint = Pt("cText", 0)
  /\ focusPoint = Pt("cText", 0)
  /\ ~isAddressable(anchorNode)
  /\ hasCursor

C10_SingleRange ==
  /\ [](/\ rangeCount <= 1
        /\ op \in SelectCommands
             => /\ rangeCount = 1
                /\ ranges = selectRangeHost(Host(<< >>, << >>), argRange).sel
        /\ op = "clearSelection" => rangeCount = 0)
  /\ [][op' \in Queries => ranges' = ranges]_vars

\* C10 witness: moveToPosition has just installed its one collapsed range
C10_Witness ==
  /\ op = "moveToPosition"
  /\ argRange.head = Pos("P2", 1)
  /\ ranges = << [anchor |-> Pt("tCD", 1), focus |-> Pt("tCD", 1)] >>

====
